---------------------------- MODULE Spec2Model ----------------------------
(***************************************************************************)
(* Boilerplate detection and conversion scripts of the content-package     *)
(* pipeline: the detector (sta-boilerplate-detector.js), the converter     *)
(* (sta-boilerplate-converter.js), the combined detect-and-convert script  *)
(* (unnamed/part_000) and the path extractor (xwalk-content.js).           *)
(*                                                                         *)
(* Text is a sequence of lexemes.  A lexeme is a string that none of the   *)
(* scripts' regular expressions can split: the literals of the patterns    *)
(* ("<filter", "root=", the quote, ">", "/", "</filter", the placeholder), *)
(* white space, and words made of [A-Za-z0-9_.-] characters.  A path such  *)
(* as /content/dam/x is the lexeme sequence "/" "content" "/" "dam" "/"    *)
(* "x".  Character classes of the patterns are predicates on lexemes.      *)
(***************************************************************************)
EXTENDS Integers, Sequences, FiniteSets, TLC

(***************************************************************************)
(* Lexemes                                                                 *)
(***************************************************************************)
PH == "sta-xwalk-boilerplate"
Q == "\""
NL == "\n"
SP == " "
LT_FILTER == "<filter"
LT_CLOSE == "</filter"
GT == ">"
SLASH == "/"
ROOT_EQ == "root="
COMMA == ","

\* \s of the patterns
IsSpace(t) == t \in {SP, NL}
\* [^"]
NotQuote(t) == t # Q
\* [^>]
NotGt(t) == t # GT
\* .  (no s flag: every character but a line terminator)
NotNewline(t) == t # NL

\* The character classes that the patterns repeat, by name.
InClass(class, t) ==
  CASE class = "\\s" -> IsSpace(t)
    [] class = "[^\"]" -> NotQuote(t)
    [] class = "[^>]" -> NotGt(t)

\* Lexemes whose characters are all of [\w-] (word characters and hyphens),
\* apart from the dots of a version number.
WordLexemes ==
  {"content", "dam", "tools", "block-collection", "acme", "foo", "other",
   "replace", "x", "-old", "my-", "true", "false", "1.0", PH}

\* Lexemes that open a tag (first character <, last a letter) and lexemes that
\* name an attribute (first character a letter, last =).
TagOpenLexemes == {LT_FILTER, LT_CLOSE, "<include", "<workspaceFilter", "</workspaceFilter"}
AttrNameLexemes == {ROOT_EQ, "mode=", "pattern=", "version="}

\* [^"\w-] applied to the first character of a lexeme
FirstCharIsSeparator(t) == t \in TagOpenLexemes \cup {SP, NL, GT, SLASH, COMMA}
\* [^"\w-] applied to the last character of a lexeme
LastCharIsSeparator(t) == t \in AttrNameLexemes \cup {SP, NL, GT, SLASH, COMMA}
\* lexemes that are a single character
SingleChar(t) == t \in {SP, NL, GT, SLASH, Q, COMMA}

\* The element of a one-element set.  TheOne({e(v) : v \in {x}}) is e at the
\* value of x: x is evaluated once, as the statement const v = x evaluates it.
TheOne(S) == CHOOSE r \in S : TRUE

At(s, i) == IF i \in 1..Len(s) THEN s[i] ELSE ""

\* The least element of a non-empty set of indices.
Least(S) == CHOOSE i \in S : \A k \in S : i <= k
\* The least index of a set, 0 for the empty set.
LeastOrZero(S) == TheOne({IF T = {} THEN 0 ELSE Least(T) : T \in {S}})
\* The greatest index of a set, 0 for the empty set.
GreatestOrZero(S) ==
  TheOne({IF T = {} THEN 0 ELSE CHOOSE i \in T : \A k \in T : k <= i : T \in {S}})

\* The index after the longest run of lexemes of the class that starts at i.
RunEnd(s, i, class) ==
  TheOne({IF stop # 0 THEN stop ELSE IF i > Len(s) THEN i ELSE Len(s) + 1 :
          stop \in {LeastOrZero({j \in i..Len(s) : ~InClass(class, s[j])})}})

Includes(list, x) == \E i \in 1..Len(list) : list[i] = x

RECURSIVE Flatten(_)
Flatten(ss) == IF ss = <<>> THEN <<>> ELSE Head(ss) \o TheOne({Flatten(rest) : rest \in {Tail(ss)}})

\* String.prototype.includes on a text: the lexemes of sub occur consecutively.
TextIncludes(s, sub) ==
  \E i \in 1..(Len(s) - Len(sub) + 1) : SubSeq(s, i, i + Len(sub) - 1) = sub

(***************************************************************************)
(* The patterns of getFilterPaths.  A match is [at, end, cap]: the index   *)
(* of its first lexeme, the index after its last, and the captured root    *)
(* value; end = 0 is no match.                                             *)
(***************************************************************************)
NoMatch == [at |-> 0, end |-> 0, cap |-> <<>>]

NoHead == [w |-> 0, v |-> 0]

\* The common head <filter\s+root="([^"]+)" at i: [w, v] with the value in
\* w+2..v-1 and its closing quote at v; v = 0 when the head does not match.
FilterHead(s, i) ==
  IF At(s, i) # LT_FILTER THEN NoHead
  ELSE TheOne({IF w > i + 1 /\ At(s, w) = ROOT_EQ /\ At(s, w + 1) = Q
               THEN TheOne({IF v > w + 2 /\ At(s, v) = Q
                            THEN [w |-> w, v |-> v] ELSE NoHead :
                            v \in {RunEnd(s, w + 2, "[^\"]")}})
               ELSE NoHead :
               w \in {RunEnd(s, i + 1, "\\s")}})

\* /<filter\s+root="([^"]+)"\s*\/>/
MatchSelfClosing(s, i) ==
  TheOne({IF h.v = 0 THEN NoMatch
          ELSE TheOne({IF At(s, e) = SLASH /\ At(s, e + 1) = GT
                       THEN [at |-> i, end |-> e + 2, cap |-> SubSeq(s, h.w + 2, h.v - 1)]
                       ELSE NoMatch :
                       e \in {RunEnd(s, h.v + 1, "\\s")}}) :
          h \in {FilterHead(s, i)}})

\* /<filter\s+root="([^"]+)"><\/filter>/
MatchEmptyBody(s, i) ==
  TheOne({IF /\ h.v # 0
             /\ At(s, h.v + 1) = GT
             /\ At(s, h.v + 2) = LT_CLOSE
             /\ At(s, h.v + 3) = GT
          THEN [at |-> i, end |-> h.v + 4, cap |-> SubSeq(s, h.w + 2, h.v - 1)]
          ELSE NoMatch :
          h \in {FilterHead(s, i)}})

\* /<filter\s+root="([^"]+)"[^>]*>.*?<\/filter>/  (lazy .*?, . stops at a newline)
MatchWithContent(s, i) ==
  TheOne({IF h.v = 0 THEN NoMatch
          ELSE TheOne({IF At(s, g) # GT THEN NoMatch
                       ELSE TheOne({IF close = 0 THEN NoMatch
                                    ELSE [at |-> i, end |-> close + 2,
                                          cap |-> SubSeq(s, h.w + 2, h.v - 1)] :
                                    close \in {LeastOrZero(
                                      {n \in (g + 1)..(Len(s) - 1) :
                                         /\ s[n] = LT_CLOSE
                                         /\ s[n + 1] = GT
                                         /\ \A k \in (g + 1)..(n - 1) : NotNewline(s[k])})}}) :
                       g \in {RunEnd(s, h.v + 1, "[^>]")}}) :
          h \in {FilterHead(s, i)}})

\* root="([^"]+)"[^>]*> at j: [v, e] with the value in j+2..v-1 and the > of
\* the tag at e; v = 0 when it does not match.
RootAttribute(s, j) ==
  IF At(s, j) # ROOT_EQ \/ At(s, j + 1) # Q THEN [v |-> 0, e |-> 0]
  ELSE TheOne({IF v > j + 2 /\ At(s, v) = Q
               THEN TheOne({IF At(s, e) = GT THEN [v |-> v, e |-> e]
                            ELSE [v |-> 0, e |-> 0] :
                            e \in {RunEnd(s, v + 1, "[^>]")}})
               ELSE [v |-> 0, e |-> 0] :
               v \in {RunEnd(s, j + 2, "[^\"]")}})

\* /<filter[^>]+root="([^"]+)"[^>]*>/  (greedy [^>]+: the last root= of the tag)
MatchOtherAttributes(s, i) ==
  IF At(s, i) # LT_FILTER THEN NoMatch
  ELSE TheOne({IF j = 0 THEN NoMatch
               ELSE TheOne({[at |-> i, end |-> a.e + 1, cap |-> SubSeq(s, j + 2, a.v - 1)] :
                            a \in {RootAttribute(s, j)}}) :
               j \in {GreatestOrZero(
                 {k \in (i + 2)..(RunEnd(s, i + 1, "[^>]") - 1) : RootAttribute(s, k).v # 0})}})

\* The patterns array, by index.
MatchPattern(p, s, i) ==
  CASE p = 1 -> MatchSelfClosing(s, i)
    [] p = 2 -> MatchEmptyBody(s, i)
    [] p = 3 -> MatchWithContent(s, i)
    [] p = 4 -> MatchOtherAttributes(s, i)

\* pattern.exec(s) with lastIndex at pos: the leftmost match at or after pos,
\* NoMatch when there is none.
NextMatch(p, s, pos) ==
  TheOne({IF matches = {} THEN NoMatch
          ELSE CHOOSE m \in matches : \A n \in matches : m.at <= n.at :
          matches \in {{m \in {MatchPattern(p, s, i) : i \in pos..Len(s)} : m.end # 0}}})

\* while ((match = pattern.exec(xmlString)) !== null) { ... paths.push(path) }
\* for one global pattern: leftmost match from pos, next search after the match.
RECURSIVE ExecAll(_, _, _, _)
ExecAll(p, s, pos, paths) ==
  TheOne({IF match.end = 0 THEN found
          ELSE ExecAll(p, s, match.end,
                       IF match.cap # <<>> /\ ~Includes(found, match.cap)
                       THEN Append(found, match.cap) ELSE found) :
          match \in {NextMatch(p, s, pos)}, found \in {paths}})

\* for (const pattern of patterns) { ... }: the patterns from p on, in turn,
\* each over the whole text, into the one list.
RECURSIVE ExecPatterns(_, _, _)
ExecPatterns(p, s, paths) ==
  IF p > 4 THEN paths
  ELSE TheOne({ExecPatterns(p + 1, s, found) : found \in {ExecAll(p, s, 1, paths)}})

\* getFilterPaths of the combined script: the four patterns in turn, each over
\* the whole text, into one de-duplicated list.
getFilterPaths(xmlString) == TheOne({ExecPatterns(1, s, <<>>) : s \in {xmlString}})

\* getFilterPaths of xwalk-content.js: the same four patterns and loop.
getFilterPathsXwalk(xmlString) == TheOne({ExecPatterns(1, s, <<>>) : s \in {xmlString}})

\* xmlString.split('\n')
RECURSIVE SplitLines(_)
SplitLines(s) ==
  TheOne({IF b = 0 THEN <<s>>
          ELSE <<SubSeq(s, 1, b - 1)>>
               \o TheOne({SplitLines(rest) : rest \in {SubSeq(s, b + 1, Len(s))}}) :
          b \in {LeastOrZero({i \in 1..Len(s) : s[i] = NL})}})

\* line.match(/^\s*<filter\s+root="([^"]+)"><\/filter>\s*$/)
MatchDetectorLine(line) ==
  TheOne({IF m.end # 0 /\ RunEnd(line, m.end, "\\s") = Len(line) + 1
          THEN m ELSE NoMatch :
          m \in {MatchEmptyBody(line, RunEnd(line, 1, "\\s"))}})

RECURSIVE DetectorLines(_)
DetectorLines(lines) ==
  IF lines = <<>> THEN <<>>
  ELSE TheOne({IF match.end # 0 THEN <<match.cap>> ELSE <<>> :
                match \in {MatchDetectorLine(Head(lines))}})
       \o TheOne({DetectorLines(rest) : rest \in {Tail(lines)}})

\* getFilterPaths of the detector script: one anchored pattern per line, no
\* de-duplication.
getFilterPathsDetector(xmlString) ==
  TheOne({DetectorLines(lines) :
          lines \in {TheOne({SplitLines(s) : s \in {xmlString}})}})

(***************************************************************************)
(* Paths and the classifiers                                               *)
(***************************************************************************)
\* '/content/sta-xwalk-boilerplate/tools'
PathTools == <<SLASH, "content", SLASH, PH, SLASH, "tools">>
\* '/content/sta-xwalk-boilerplate/block-collection'
PathBlocks == <<SLASH, "content", SLASH, PH, SLASH, "block-collection">>
\* '/content/dam/sta-xwalk-boilerplate/block-collection'
PathDamBlocks == <<SLASH, "content", SLASH, "dam", SLASH, PH, SLASH, "block-collection">>
\* '/content/acme/foo': a path that has nothing of the boilerplate
PathUnrelated == <<SLASH, "content", SLASH, "acme", SLASH, "foo">>
\* '/content/sta-xwalk-boilerplate-old': placeholder-bearing, not a reference path
PathTagged == <<SLASH, "content", SLASH, PH, "-old">>

BOILERPLATE_PATHS == <<PathTools, PathBlocks, PathDamBlocks>>

\* path.includes('sta-xwalk-boilerplate')
HasPlaceholder(path) == \E i \in 1..Len(path) : path[i] = PH

\* paths.filter(path => path.includes('sta-xwalk-boilerplate')).length
RECURSIVE CountTagged(_)
CountTagged(paths) ==
  IF paths = <<>> THEN 0
  ELSE (IF HasPlaceholder(Head(paths)) THEN 1 ELSE 0) + CountTagged(Tail(paths))

\* Fault model: the share of placeholder-bearing entries is compared with a
\* half instead of 60%.
AtLeastHalf(n, len) == 2 * n >= len

\* n >= len * 0.6 in IEEE doubles, for list lengths: 0.6 is the double just
\* below 3/5, so len * 0.6 rounds to 3*len/5 or to the double just below it, and
\* an integer n is at least that exactly when 5n >= 3*len.
AtLeastSixtyPercent(n, len) == 5 * n >= 3 * len

\* isBoilerplatePackage of the combined script (permissive).
isBoilerplatePackage(paths) ==
  IF Len(paths) = 0 THEN FALSE
  ELSE LET requiredPathsFound ==
             \A r \in 1..Len(BOILERPLATE_PATHS) :
               \E i \in 1..Len(paths) : paths[i] = BOILERPLATE_PATHS[r]
           boilerplateRelated == CountTagged(paths)
       IN \/ requiredPathsFound
          \/ (boilerplateRelated >= 2
              /\ AtLeastSixtyPercent(boilerplateRelated, Len(paths)))

\* isBoilerplatePackage of the converter script: the same function.
isBoilerplatePackageConverter(paths) ==
  IF Len(paths) = 0 THEN FALSE
  ELSE LET requiredPathsFound ==
             \A r \in 1..Len(BOILERPLATE_PATHS) :
               \E i \in 1..Len(paths) : paths[i] = BOILERPLATE_PATHS[r]
           boilerplateRelated == CountTagged(paths)
       IN \/ requiredPathsFound
          \/ (boilerplateRelated >= 2
              /\ AtLeastSixtyPercent(boilerplateRelated, Len(paths)))

\* The order of Array.prototype.sort() (by UTF-16 code units) on the paths of
\* the model: '/content/acme/foo' < '/content/dam/sta-xwalk-boilerplate/block-collection'
\* < '/content/sta-xwalk-boilerplate-old' < '/content/sta-xwalk-boilerplate/block-collection'
\* < '/content/sta-xwalk-boilerplate/tools'  ('-' is 0x2d, '/' is 0x2f).
SortOrder == <<PathUnrelated, PathDamBlocks, PathTagged, PathBlocks, PathTools>>

SortRank(path) == CHOOSE r \in 1..Len(SortOrder) : SortOrder[r] = path

\* Fault model: an insertion that ignores the order, so that the copy is
\* left as the caller wrote it.
InsertFirst(x, sorted) == <<x>> \o sorted

\* [...paths].sort(): insertion into a sorted list.
RECURSIVE InsertSorted(_, _)
InsertSorted(x, sorted) ==
  IF sorted = <<>> THEN <<x>>
  ELSE IF SortRank(x) <= SortRank(Head(sorted)) THEN <<x>> \o sorted
       ELSE <<Head(sorted)>> \o TheOne({InsertSorted(x, rest) : rest \in {Tail(sorted)}})

\* Fault model: the comparison is made without sorting.
KeepOrder(paths) == paths

RECURSIVE Sort(_)
Sort(paths) ==
  IF paths = <<>> THEN <<>>
  ELSE TheOne({InsertSorted(Head(paths), sorted) :
                sorted \in {TheOne({Sort(rest) : rest \in {Tail(paths)}})}})

\* isBoilerplatePackage of the detector script (strict).
isBoilerplatePackageDetector(paths) ==
  IF Len(paths) # 3 THEN FALSE
  ELSE LET sortedPaths == Sort(paths)
           sortedBoilerplate == Sort(BOILERPLATE_PATHS)
       IN \A index \in 1..Len(sortedPaths) : sortedPaths[index] = sortedBoilerplate[index]

(***************************************************************************)
(* The rewrite                                                             *)
(***************************************************************************)
\* str.replace(/sta-xwalk-boilerplate/g, repoName)
RECURSIVE ReplacePlaceholder(_, _)
ReplacePlaceholder(s, repoName) ==
  TheOne({IF i = 0 THEN s
          ELSE SubSeq(s, 1, i - 1) \o repoName
               \o TheOne({ReplacePlaceholder(rest, repoName) :
                           rest \in {SubSeq(s, i + 1, Len(s))}}) :
          i \in {LeastOrZero({k \in 1..Len(s) : s[k] = PH})}})

\* Fault model: the callback rebuilds every match, also when its root has no
\* placeholder.
ConverterReplacementAlways(match, originalPath, repoName) ==
  TheOne(
    {IF TextIncludes(match, <<SLASH, GT>>)
     THEN <<LT_FILTER, SP, ROOT_EQ, Q>> \o newPath \o <<Q, SLASH, GT>>
     ELSE IF TextIncludes(match, <<GT, LT_CLOSE, GT>>)
          THEN <<LT_FILTER, SP, ROOT_EQ, Q>> \o newPath \o <<Q, GT, LT_CLOSE, GT>>
          ELSE match :
     newPath \in {ReplacePlaceholder(originalPath, repoName)}})

\* The callback of the converter's replace: the text that replaces a match.
ConverterReplacement(match, originalPath, repoName) ==
  IF HasPlaceholder(originalPath)
  THEN TheOne(
         {IF TextIncludes(match, <<SLASH, GT>>)
          THEN <<LT_FILTER, SP, ROOT_EQ, Q>> \o newPath \o <<Q, SLASH, GT>>
          ELSE IF TextIncludes(match, <<GT, LT_CLOSE, GT>>)
               THEN <<LT_FILTER, SP, ROOT_EQ, Q>> \o newPath \o <<Q, GT, LT_CLOSE, GT>>
               ELSE \* match.replace(originalPath, newPath): the first occurrence
                    TheOne({SubSeq(match, 1, at - 1) \o newPath
                              \o SubSeq(match, at + Len(originalPath), Len(match)) :
                            at \in {Least({i \in 1..Len(match) :
                                      SubSeq(match, i, i + Len(originalPath) - 1)
                                        = originalPath})}}) :
          newPath \in {ReplacePlaceholder(originalPath, repoName)}})
  ELSE match

\* modifiedContent.replace(pattern, callback) for one global pattern.
RECURSIVE ReplaceAll(_, _, _, _)
ReplaceAll(p, s, pos, repoName) ==
  TheOne({IF m.end = 0 THEN SubSeq(s, pos, Len(s))
          ELSE SubSeq(s, pos, m.at - 1)
                 \o TheOne({ConverterReplacement(match, m.cap, repoName) :
                             match \in {SubSeq(s, m.at, m.end - 1)}})
                 \o ReplaceAll(p, s, m.end, repoName) :
          m \in {NextMatch(p, s, pos)}})

\* convertBoilerplatePaths of the converter script: the first three patterns.
convertBoilerplatePathsConverter(filterXmlContent, repoName) ==
  TheOne({ReplaceAll(3, afterEmptyBody, 1, repoName) :
          afterEmptyBody \in
            {TheOne({ReplaceAll(2, afterSelfClosing, 1, repoName) :
                     afterSelfClosing \in
                       {TheOne({ReplaceAll(1, s, 1, repoName) : s \in {filterXmlContent}})}})}})

\* /root="([^"]*sta-xwalk-boilerplate[^"]*)"/ at i: the index of the closing
\* quote, 0 when there is no match.
MatchRootValue(s, i) ==
  IF At(s, i) # ROOT_EQ \/ At(s, i + 1) # Q THEN 0
  ELSE TheOne({IF At(s, v) = Q /\ HasPlaceholder(SubSeq(s, i + 2, v - 1)) THEN v ELSE 0 :
               v \in {RunEnd(s, i + 2, "[^\"]")}})

\* replace(/root="([^"]*sta-xwalk-boilerplate[^"]*)"/g, ...) of the combined script.
RECURSIVE ReplaceRootValues(_, _, _)
ReplaceRootValues(s, pos, repoName) ==
  TheOne({IF i = 0 THEN SubSeq(s, pos, Len(s))
          ELSE TheOne({SubSeq(s, pos, i - 1) \o <<ROOT_EQ, Q>>
                         \o TheOne({ReplacePlaceholder(p1, repoName) :
                                     p1 \in {SubSeq(s, i + 2, v - 1)}})
                         \o <<Q>>
                         \o ReplaceRootValues(s, v + 1, repoName) :
                       v \in {MatchRootValue(s, i)}}) :
          i \in {LeastOrZero({k \in pos..Len(s) : MatchRootValue(s, k) # 0})}})

\* /([^"\w-])sta-xwalk-boilerplate([^"\w-])/ with the placeholder at i: one
\* character is taken on each side; the character before pos is not available
\* when the previous match took it (taken) and its lexeme is that one character.
MatchDelimited(s, i, pos, taken) ==
  /\ At(s, i) = PH
  /\ i > 1
  /\ i < Len(s)
  /\ LastCharIsSeparator(s[i - 1])
  /\ ~(i = pos /\ taken /\ SingleChar(s[i - 1]))
  /\ FirstCharIsSeparator(s[i + 1])

\* replace(/([^"\w-])sta-xwalk-boilerplate([^"\w-])/g, `$1${repoName}$2`)
RECURSIVE ReplaceDelimited(_, _, _, _)
ReplaceDelimited(s, pos, taken, repoName) ==
  TheOne({IF i = 0 THEN SubSeq(s, pos, Len(s))
          ELSE SubSeq(s, pos, i - 1) \o repoName \o <<s[i + 1]>>
               \o ReplaceDelimited(s, i + 2, TRUE, repoName) :
          i \in {LeastOrZero({k \in pos..Len(s) : MatchDelimited(s, k, pos, taken)})}})

\* convertBoilerplatePaths of the combined script.
convertBoilerplatePaths(filterXmlContent, repoName) ==
  TheOne({ReplaceDelimited(afterRoots, 1, FALSE, repoName) :
          afterRoots \in
            {TheOne({ReplaceRootValues(afterAll, 1, repoName) :
                     afterAll \in
                       {TheOne({ReplacePlaceholder(s, repoName) : s \in {filterXmlContent}})}})}})

(***************************************************************************)
(* Manifests: META-INF/vault/filter.xml as text.  A manifest of the model  *)
(* is written from a list of filter elements [syntax, root], one element   *)
(* per entry, between the <workspaceFilter> tags.                          *)
(***************************************************************************)
Syntaxes == {"selfClosing", "emptyBody", "content", "contentLines", "otherAttributes"}

IncludeRule == <<"<include", SP, "pattern=", Q, SLASH, "x", Q, SLASH, GT>>

\* One filter element with the given root value, in the given tag syntax.
RenderElement(syntax, root) ==
  CASE syntax = "selfClosing" ->
         <<LT_FILTER, SP, ROOT_EQ, Q>> \o root \o <<Q, SLASH, GT>>
    [] syntax = "emptyBody" ->
         <<LT_FILTER, SP, ROOT_EQ, Q>> \o root \o <<Q, GT, LT_CLOSE, GT>>
    [] syntax = "content" ->
         <<LT_FILTER, SP, ROOT_EQ, Q>> \o root \o <<Q, GT>> \o IncludeRule
           \o <<LT_CLOSE, GT>>
    [] syntax = "contentLines" ->
         <<LT_FILTER, SP, ROOT_EQ, Q>> \o root \o <<Q, GT, NL, SP>> \o IncludeRule
           \o <<NL, LT_CLOSE, GT>>
    [] syntax = "otherAttributes" ->
         <<LT_FILTER, SP, "mode=", Q, "replace", Q, SP, ROOT_EQ, Q>> \o root
           \o <<Q, SLASH, GT>>

RECURSIVE RenderElements(_)
RenderElements(elems) ==
  IF elems = <<>> THEN <<>>
  ELSE <<SP>> \o RenderElement(Head(elems).syntax, Head(elems).root) \o <<NL>>
       \o RenderElements(Tail(elems))

RenderManifest(elems) ==
  <<"<workspaceFilter", SP, "version=", Q, "1.0", Q, GT, NL>>
    \o RenderElements(elems) \o <<"</workspaceFilter", GT, NL>>

\* The root values of a list of elements, in the order of the text.
Roots(elems) == [i \in 1..Len(elems) |-> elems[i].root]

\* A list without its repetitions, first occurrences kept in order.
RECURSIVE Distinct(_, _)
Distinct(list, seen) ==
  IF list = <<>> THEN seen
  ELSE TheOne({Distinct(rest, kept) :
                rest \in {Tail(list)},
                kept \in {IF Includes(seen, Head(list)) THEN seen
                          ELSE Append(seen, Head(list))}})

(***************************************************************************)
(* State                                                                   *)
(***************************************************************************)
VARIABLES
  \* the classifiers applied to a path list
  cPaths,      \* the path list handed to isBoilerplatePackage
  cStage,      \* "build" while the list is being put together, then "classified"
  cFirst,      \* what the classifiers returned for the list as first classified
  cNow,        \* what they return for the list in its present order
  cReordered,  \* the list has been reordered since it was first classified
  \* the extractors and the rewrites applied to a manifest
  mElems,      \* the filter elements the manifest text is written from
  mRepo,       \* repoName
  mStage,      \* "input", then "extracted" or "converted"
  mPaths,      \* what each getFilterPaths returned
  mText,       \* what each convertBoilerplatePaths returned
  mTwice       \* what each convertBoilerplatePaths returned for its own result

classifyVars == <<cPaths, cStage, cFirst, cNow, cReordered>>
manifestVars == <<mElems, mRepo, mStage, mPaths, mText, mTwice>>

(***************************************************************************)
(* Bounds of the model                                                     *)
(***************************************************************************)
\* longest path list handed to a classifier
MaxPaths == 6
\* most filter elements in a manifest handed to an extractor or a rewrite
MaxElems == 2

(***************************************************************************)
(* The classifiers on path lists                                           *)
(***************************************************************************)
PathUniverse == {SortOrder[i] : i \in 1..Len(SortOrder)}

Verdicts(paths) ==
  [detector  |-> isBoilerplatePackageDetector(paths),
   combined  |-> isBoilerplatePackage(paths),
   converter |-> isBoilerplatePackageConverter(paths)]

NoVerdicts == [detector |-> FALSE, combined |-> FALSE, converter |-> FALSE]

ClassifyIdle ==
  /\ cPaths = <<>>
  /\ cStage = "idle"
  /\ cFirst = NoVerdicts
  /\ cNow = NoVerdicts
  /\ cReordered = FALSE

ClassifyInit ==
  /\ cPaths = <<>>
  /\ cStage = "build"
  /\ cFirst = NoVerdicts
  /\ cNow = NoVerdicts
  /\ cReordered = FALSE

\* The caller puts one more path on the list.
AddPath ==
  /\ cStage = "build"
  /\ Len(cPaths) < MaxPaths
  /\ \E p \in PathUniverse : cPaths' = Append(cPaths, p)
  /\ UNCHANGED <<cStage, cFirst, cNow, cReordered>>

\* isBoilerplatePackage(paths), each variant.
ClassifyList ==
  /\ cStage = "build"
  /\ cStage' = "classified"
  /\ cFirst' = Verdicts(cPaths)
  /\ cNow' = Verdicts(cPaths)
  /\ UNCHANGED <<cPaths, cReordered>>

\* The same entries in another order (two neighbours exchanged), classified again.
Reorder ==
  /\ cStage = "classified"
  /\ \E i \in 1..(Len(cPaths) - 1) :
       /\ cPaths[i] # cPaths[i + 1]
       /\ cPaths' = [cPaths EXCEPT ![i] = cPaths[i + 1], ![i + 1] = cPaths[i]]
  /\ cNow' = Verdicts(cPaths')
  /\ cReordered' = TRUE
  /\ UNCHANGED <<cStage, cFirst>>

(***************************************************************************)
(* The extractors and the rewrites on manifests                            *)
(***************************************************************************)
RootUniverse == {PathTools, PathUnrelated, PathTagged}

\* repository names of the pure rewrite: 'acme', 'other', 'my-sta-xwalk-boilerplate'
RepoNamesPlain == {<<"acme">>, <<"other">>, <<"my-", PH>>}

Elements == [syntax : Syntaxes, root : RootUniverse]

ElementLists == UNION {[1..n -> Elements] : n \in 0..MaxElems}

NoPaths == [detector |-> <<>>, combined |-> <<>>, xwalk |-> <<>>]
NoTexts == [converter |-> <<>>, combined |-> <<>>]

ManifestIdle ==
  /\ mElems = <<>>
  /\ mRepo = <<>>
  /\ mStage = "idle"
  /\ mPaths = NoPaths
  /\ mText = NoTexts
  /\ mTwice = NoTexts

ManifestInit ==
  /\ mElems \in ElementLists
  /\ mRepo \in RepoNamesPlain
  /\ mStage = "input"
  /\ mPaths = NoPaths
  /\ mText = NoTexts
  /\ mTwice = NoTexts

\* getFilterPaths(xmlString), each variant, on the manifest text.
Extract ==
  /\ mStage = "input"
  /\ mStage' = "extracted"
  /\ mPaths' = [detector |-> getFilterPathsDetector(RenderManifest(mElems)),
                combined |-> getFilterPaths(RenderManifest(mElems)),
                xwalk    |-> getFilterPathsXwalk(RenderManifest(mElems))]
  /\ UNCHANGED <<mElems, mRepo, mText, mTwice>>

\* convertBoilerplatePaths(filterXmlContent, repoName), each variant.
Convert ==
  /\ mStage = "input"
  /\ mStage' = "converted"
  /\ mText' = [converter |-> convertBoilerplatePathsConverter(RenderManifest(mElems), mRepo),
               combined  |-> convertBoilerplatePaths(RenderManifest(mElems), mRepo)]
  /\ UNCHANGED <<mElems, mRepo, mPaths, mTwice>>

\* convertBoilerplatePaths(filterXmlContent, repoName), each variant, applied to
\* the text it returned.
ConvertAgain ==
  /\ mStage = "converted"
  /\ mStage' = "convertedTwice"
  /\ mTwice' = [converter |-> convertBoilerplatePathsConverter(mText.converter, mRepo),
                combined  |-> convertBoilerplatePaths(mText.combined, mRepo)]
  /\ UNCHANGED <<mElems, mRepo, mPaths, mText>>

(***************************************************************************)
(* One invocation of a script (run): inputs, the files under               *)
(* zip_contents_path, the scratch file in the working directory, outputs.  *)
(***************************************************************************)
VARIABLES
  variant,        \* "detector" | "converter" | "combined": the script that runs
  srcKind,        \* what zip_contents_path holds: "zip" | "zipNoManifest" | "dir" |
                  \* "none" | "missing"
  inElems,        \* the filter elements of the package's manifest as delivered
  inTree,         \* the folders under the package's jcr_root as delivered
  inRepo,         \* input repo_name
  inOthers,       \* the package's top-level entries other than jcr_root and META-INF
  inConvert,      \* input convert
  inPagePaths,    \* input page_paths
  zipFile,        \* the content package .zip under zip_contents_path, or NoArchive
  srcManifest,    \* zip_contents_path/META-INF/vault/filter.xml, or NoFile
  srcTree,        \* the folders under zip_contents_path/jcr_root
  workAt,         \* the directory the conversion works in: "none" | "source" | "extracted"
  workManifest,   \* META-INF/vault/filter.xml of the extraction directory, or NoFile
  workTree,       \* the folders under jcr_root of the extraction directory
  tempDirs,       \* the working directories of the run that exist
  convertedZip,   \* the archive the conversion wrote, or NoArchive
  scratch,        \* ./filter.xml in the process's working directory, or NoFile
  pc,             \* the step the run is at
  extractedPaths, \* the path list that is classified
  classified,     \* "none" | "true" | "false": what isBoilerplatePackage returned
  seenManifest,   \* the package's manifest on disk when the classifier ran
  steps,          \* the steps performed so far, in order
  outputs,        \* core.setOutput: output name -> value, Unset when not set
  returned        \* what doExtractContentPaths returned, NotReturned before it returns

inputVars == <<variant, srcKind, inElems, inTree, inOthers, inRepo, inConvert, inPagePaths>>
fileVars == <<zipFile, srcManifest, srcTree, workAt, workManifest, workTree, tempDirs,
              convertedZip, scratch>>
runVars == <<inputVars, fileVars, pc, extractedPaths, classified, seenManifest, steps,
             outputs, returned>>

\* One more invocation of the script, same inputs, same directory.
VARIABLES
  invocation,     \* 1 for the first invocation on the directory, 2 for the next
  firstRun        \* how the first invocation ended and what it reported

againVars == <<invocation, firstRun>>

(***************************************************************************)
(* Two detections at once: two invocations of one script, each on its own  *)
(* archive, run as two processes with the same working directory.  Both    *)
(* name their scratch file 'filter.xml', a path relative to that directory.*)
(***************************************************************************)
VARIABLES
  detScript,      \* "detector" | "combined" | "xwalk": the script both invocations run
  detPackage,     \* [process -> the filter elements of the manifest in its archive]
  detPc,          \* [process -> "idle" | "write" | "read" | "delete" | "done" |
                  \*             "failed" | "thrown"]
  detError,       \* [process -> the error its promise was rejected with, or Unset]
  detPaths,       \* [process -> the paths it extracted, or Unset]
  detVerdict,     \* [process -> the is_boilerplate it reports, or Unset]
  cwdFilterXml    \* ./filter.xml of the shared working directory, or NoFile

scratchVars == <<detScript, detPackage, detPc, detError, detPaths, detVerdict, cwdFilterXml>>

vars == <<classifyVars, manifestVars, runVars, againVars, scratchVars>>

\* most filter elements in the manifest of a package handed to a run
MaxRunElems == 3

NoFile == <<"(no file)">>
NoArchive == [name |-> <<>>, manifest |-> NoFile, tree |-> {}, others |-> {}]
Unset == <<"(unset)">>
NotReturned == <<"(not returned)">>
Undefined == <<"(undefined)">>

\* What is known of the first invocation while it runs.
NoRun == [pc |-> "none", source |-> <<>>, is_boilerplate |-> Unset, page_paths |-> Unset]

\* The steps at which a run has ended: run returned ('done', or 'failed' after
\* its catch block), the entry point threw to its caller ('thrown'), or an
\* 'error' event without a listener ended the process ('crashed').
Terminal == {"done", "failed", "thrown", "crashed"}

OutputNames ==
  {"is_boilerplate", "content_package_path", "page_paths", "converted_package_path",
   "converted_page_paths", "error_message"}

\* Folder names and folder paths under jcr_root.
DirContent == <<"content">>
DirDam == <<"dam">>
DirPlaceholder == <<PH>>
TreeBoth ==
  {<<DirContent>>, <<DirContent, DirPlaceholder>>, <<DirContent, DirDam>>,
   <<DirContent, DirDam, DirPlaceholder>>}
TreeDamOnly == {<<DirContent>>, <<DirContent, DirDam>>, <<DirContent, DirDam, DirPlaceholder>>}
TreePlain == {<<DirContent>>, <<DirContent, <<"acme">>>>}
Trees == {TreeBoth, TreeDamOnly, TreePlain}

\* The name of the content package archive: 'package.zip'.
ZipName == <<"package", ".zip">>

\* Top-level entries a package may hold besides jcr_root and META-INF.
OtherEntries == {{}, {"README.md"}}

\* convert as given: 'true', 'TRUE', ''
ConvertInputs == {<<"true">>, <<"TRUE">>, <<>>}

\* repo_name as given: '', 'acme', 'my-sta-xwalk-boilerplate'
RepoNames == {<<>>, <<"acme">>, <<"my-", PH>>}

\* The root values of the manifests handed to runs, in the order they are written.
RunRoots == <<PathTools, PathBlocks, PathDamBlocks, PathUnrelated>>

\* Manifests handed to runs: up to MaxRunElems distinct roots, in one tag syntax.
RunRootLists ==
  UNION {{[i \in 1..n |-> RunRoots[f[i]]] :
            f \in {g \in [1..n -> 1..Len(RunRoots)] :
                     \A i, j \in 1..n : i < j => g[i] < g[j]}} :
         n \in 0..MaxRunElems}

RunManifests ==
  {[i \in 1..Len(roots) |-> [syntax |-> sy, root |-> roots[i]]] :
     roots \in RunRootLists, sy \in Syntaxes}

\* paths.join(',')
RECURSIVE JoinComma(_)
JoinComma(paths) ==
  IF paths = <<>> THEN <<>>
  ELSE IF Len(paths) = 1 THEN Head(paths)
       ELSE Head(paths) \o <<COMMA>> \o JoinComma(Tail(paths))

\* p.trim()
Trim(s) ==
  LET solid == {i \in 1..Len(s) : ~IsSpace(s[i])}
  IN IF solid = {} THEN <<>>
     ELSE SubSeq(s, Least(solid), CHOOSE i \in solid : \A k \in solid : k <= i)

\* input.split(',')
RECURSIVE SplitComma(_)
SplitComma(s) ==
  LET commas == {i \in 1..Len(s) : s[i] = COMMA}
  IN IF commas = {} THEN <<s>>
     ELSE <<SubSeq(s, 1, Least(commas) - 1)>>
          \o SplitComma(SubSeq(s, Least(commas) + 1, Len(s)))

\* pagePathsInput ? pagePathsInput.split(',').map((p) => p.trim()) : []
ParsePagePaths(input) ==
  IF input = <<>> THEN <<>>
  ELSE LET parts == SplitComma(input) IN [i \in 1..Len(parts) |-> Trim(parts[i])]

\* JSON.stringify of an array of strings
RECURSIVE JsonItems(_)
JsonItems(paths) ==
  IF paths = <<>> THEN <<>>
  ELSE <<Q>> \o Head(paths) \o <<Q>>
       \o (IF Len(paths) = 1 THEN <<>> ELSE <<COMMA>>) \o JsonItems(Tail(paths))

JsonStringify(paths) == <<"[">> \o JsonItems(paths) \o <<"]">>

\* result.pagePaths.map(originalPath => originalPath.includes(...) ? ... : originalPath)
ConvertPagePaths(paths, repoName) ==
  [i \in 1..Len(paths) |->
     IF HasPlaceholder(paths[i]) THEN ReplacePlaceholder(paths[i], repoName)
     ELSE paths[i]]

IsPrefix(p, s) == Len(p) <= Len(s) /\ SubSeq(s, 1, Len(p)) = p

\* fs.renameSync(from, to) on a set of folders: the folder and all below it move.
RenameDir(tree, from, to) ==
  {IF IsPrefix(from, d) THEN to \o SubSeq(d, Len(from) + 1, Len(d)) ELSE d : d \in tree}

\* Fault model: the content folder itself is looked for and renamed.
renameContentFolder(tree, repoName) ==
  IF <<DirContent>> \in tree THEN RenameDir(tree, <<DirContent>>, <<repoName>>) ELSE tree

\* renameFoldersInJcrRoot of the combined script.
renameFoldersInJcrRoot(tree, repoName) ==
  LET renamedContent ==
        IF <<DirContent, DirPlaceholder>> \in tree
        THEN RenameDir(tree, <<DirContent, DirPlaceholder>>, <<DirContent, repoName>>)
        ELSE tree
  IN IF <<DirContent, DirDam, DirPlaceholder>> \in renamedContent
     THEN RenameDir(renamedContent, <<DirContent, DirDam, DirPlaceholder>>,
                    <<DirContent, DirDam, repoName>>)
     ELSE renamedContent

\* renameFoldersInJcrRoot of the converter script: the same function.
renameFoldersInJcrRootConverter(tree, repoName) ==
  LET renamedContent ==
        IF <<DirContent, DirPlaceholder>> \in tree
        THEN RenameDir(tree, <<DirContent, DirPlaceholder>>, <<DirContent, repoName>>)
        ELSE tree
  IN IF <<DirContent, DirDam, DirPlaceholder>> \in renamedContent
     THEN RenameDir(renamedContent, <<DirContent, DirDam, DirPlaceholder>>,
                    <<DirContent, DirDam, repoName>>)
     ELSE renamedContent

(***************************************************************************)
(* The run, step by step                                                   *)
(***************************************************************************)
Variants == {"detector", "converter", "combined", "xwalk"}

\* page_paths as the caller may give it to the converter: not given, the three
\* reference paths, or the paths an upstream step extracted from the manifest.
PagePathInputs(elems) ==
  {<<>>, JoinComma(BOILERPLATE_PATHS), JoinComma(getFilterPaths(RenderManifest(elems)))}

RunIdle ==
  /\ variant = "idle"
  /\ srcKind = "none"
  /\ inElems = <<>>
  /\ inTree = {}
  /\ inOthers = {}
  /\ inRepo = <<>>
  /\ inConvert = <<>>
  /\ inPagePaths = <<>>
  /\ zipFile = NoArchive
  /\ srcManifest = NoFile
  /\ srcTree = {}
  /\ workAt = "none"
  /\ workManifest = NoFile
  /\ workTree = {}
  /\ tempDirs = {}
  /\ convertedZip = NoArchive
  /\ scratch = NoFile
  /\ pc = "idle"
  /\ extractedPaths = <<>>
  /\ classified = "none"
  /\ seenManifest = NoFile
  /\ steps = <<>>
  /\ outputs = [n \in OutputNames |-> Unset]
  /\ returned = NotReturned

\* The content package archive as it is delivered under zip_contents_path.
DeliveredArchive ==
  CASE srcKind = "zip" ->
         [name |-> ZipName, manifest |-> RenderManifest(inElems), tree |-> inTree,
          others |-> inOthers]
    [] srcKind = "zipNoManifest" ->
         [name |-> ZipName, manifest |-> NoFile, tree |-> inTree, others |-> inOthers]
    [] OTHER -> NoArchive

RunInit ==
  /\ variant \in Variants
  /\ srcKind \in {"zip", "zipNoManifest", "dir", "none", "missing"}
  /\ IF srcKind \in {"zip", "dir"}
     THEN /\ inElems \in RunManifests
          /\ inTree \in (IF variant \in {"detector", "xwalk"} THEN {TreeBoth} ELSE Trees)
          /\ inOthers \in (IF variant \in {"detector", "xwalk"} THEN {{}} ELSE OtherEntries)
     ELSE /\ inElems = <<>>
          /\ inTree = (IF srcKind = "zipNoManifest" THEN TreeBoth ELSE {})
          /\ inOthers = {}
  /\ inRepo \in (IF variant \in {"detector", "xwalk"} THEN {<<>>} ELSE RepoNames)
  /\ inConvert \in (IF variant = "combined" THEN ConvertInputs ELSE {<<>>})
  /\ inPagePaths \in (IF variant = "converter" THEN PagePathInputs(inElems) ELSE {<<>>})
  /\ zipFile = DeliveredArchive
  /\ srcManifest = IF srcKind = "dir" THEN RenderManifest(inElems) ELSE NoFile
  /\ srcTree = IF srcKind = "dir" THEN inTree ELSE {}
  /\ workAt = "none"
  /\ workManifest = NoFile
  /\ workTree = {}
  /\ tempDirs = {}
  /\ convertedZip = NoArchive
  /\ scratch = NoFile
  /\ pc = (IF variant = "xwalk" THEN "locate" ELSE "start")
  /\ extractedPaths = <<>>
  /\ classified = "none"
  /\ seenManifest = NoFile
  /\ steps = <<>>
  /\ outputs = [n \in OutputNames |-> Unset]
  /\ returned = NotReturned

\* Fault model: the catch block logs the error and sets no output.
FailedSilently(message) ==
  /\ pc' = "failed"
  /\ UNCHANGED outputs

\* The catch block of run: core.setOutput('error_message', ...), and run returns.
Failed(message) ==
  /\ pc' = "failed"
  /\ outputs' = [outputs EXCEPT !["error_message"] = <<message>>]

\* An error leaves the entry point: doExtractContentPaths has no catch block.
Thrown ==
  /\ pc' = "thrown"
  /\ UNCHANGED outputs

\* Fault model: any convert input that is not empty asks for the conversion.
convertGiven == inConvert # <<>>

\* convertMode: core.getInput('convert') === 'true'
convertMode == inConvert = <<"true">>

\* getContentPackagePath: the first .zip of the directory, if any.
HasZip == zipFile # NoArchive

\* The package's manifest as it is on disk: in the archive, or in the directory.
PackageManifest == IF HasZip THEN zipFile.manifest ELSE srcManifest

\* Fault model: the converter starts the conversion without classifying.
ValidateThenConvert ==
  /\ pc = "start"
  /\ IF srcKind = "missing"
     THEN /\ Failed("Zip contents path not found")
          /\ UNCHANGED extractedPaths
     ELSE IF variant = "converter"
          THEN /\ extractedPaths' = ParsePagePaths(inPagePaths)
               /\ pc' = "convert"
               /\ UNCHANGED outputs
          ELSE /\ pc' = "locate"
               /\ UNCHANGED <<extractedPaths, outputs>>
  /\ UNCHANGED <<inputVars, returned, fileVars, classified, seenManifest, steps>>

\* Fault model: the converter does not ask for repo_name.
ValidateWithoutRepoName ==
  /\ pc = "start"
  /\ IF srcKind = "missing"
     THEN /\ Failed("Zip contents path not found")
          /\ UNCHANGED extractedPaths
     ELSE IF variant = "converter"
          THEN /\ extractedPaths' = ParsePagePaths(inPagePaths)
               /\ pc' = "classify"
               /\ UNCHANGED outputs
          ELSE /\ pc' = "locate"
               /\ UNCHANGED <<extractedPaths, outputs>>
  /\ UNCHANGED <<inputVars, returned, fileVars, classified, seenManifest, steps>>

\* run, "Validate inputs" (and the converter's "Parse page paths").
Validate ==
  /\ pc = "start"
  /\ IF srcKind = "missing"
     THEN /\ Failed("Zip contents path not found")
          /\ UNCHANGED extractedPaths
     ELSE IF variant = "converter" /\ inRepo = <<>>
          THEN /\ Failed("Repository name is required")
               /\ UNCHANGED extractedPaths
          ELSE IF variant = "converter"
               THEN /\ extractedPaths' = ParsePagePaths(inPagePaths)
                    /\ pc' = "classify"
                    /\ UNCHANGED outputs
               ELSE /\ pc' = "locate"
                    /\ UNCHANGED <<extractedPaths, outputs>>
  /\ UNCHANGED <<inputVars, returned, fileVars, classified, seenManifest, steps>>

\* detectBoilerplate, up to the choice between the archive and the directory.
Locate ==
  /\ pc = "locate"
  /\ variant # "xwalk"
  /\ IF variant = "detector"
     THEN IF HasZip
          THEN pc' = "extract" /\ UNCHANGED outputs
          ELSE Failed("No .zip files found in the specified directory.")
     ELSE IF ~HasZip /\ srcManifest # NoFile
          THEN pc' = "read" /\ UNCHANGED outputs
          ELSE IF ~HasZip
               THEN Failed("No .zip files found in the specified directory and no boilerplate content detected.")
               ELSE pc' = "extract" /\ UNCHANGED outputs
  /\ UNCHANGED <<inputVars, returned, fileVars, extractedPaths, classified, seenManifest, steps>>

\* doExtractContentPaths, up to the choice between the archive and the
\* directory: readdirSync throws when zip_contents_path does not exist.
LocateXwalk ==
  /\ pc = "locate"
  /\ variant = "xwalk"
  /\ IF srcKind = "missing"
     THEN Thrown
     ELSE IF ~HasZip /\ srcManifest # NoFile
          THEN /\ pc' = "read"
               /\ outputs' = [outputs EXCEPT !["content_package_path"] = <<>>]
          ELSE IF ~HasZip
               THEN Thrown
               ELSE /\ pc' = "extract"
                    /\ outputs' = [outputs EXCEPT !["content_package_path"] = zipFile.name]
  /\ UNCHANGED <<inputVars, returned, fileVars, extractedPaths, classified, seenManifest,
                 steps>>

\* createReadStream(zip).pipe(ParseOne('META-INF/vault/filter.xml'))
\*   .pipe(createWriteStream('filter.xml'))
ExtractManifest ==
  /\ pc = "extract"
  /\ zipFile.manifest # NoFile
  /\ scratch' = zipFile.manifest
  /\ pc' = "read"
  /\ UNCHANGED <<inputVars, returned, zipFile, srcManifest, srcTree, workAt, workManifest, workTree,
                 tempDirs, convertedZip, extractedPaths, classified, seenManifest, steps,
                 outputs>>

\* A stream of the pipe emits 'error'.  The only listener, .on('error', ...),
\* is on the stream the last pipe() returns, the write stream: its error
\* rejects the promise, the scratch file is unlinked (finally) and the error
\* reaches the caller of detectBoilerplate.  pipe() forwards no error, so an
\* error of the read stream or of the entry parser (which is how the parser
\* reports an archive without the entry) finds no listener: the process ends
\* on the uncaught error with the promise pending, and the scratch file may
\* have been created.
ExtractManifestFails ==
  /\ pc = "extract"
  /\ \E cause \in (IF zipFile.manifest = NoFile THEN {"parser"}
                   ELSE {"reader", "parser", "writer"}) :
       IF cause = "writer"
       THEN /\ scratch' = NoFile
            /\ IF variant = "xwalk" THEN Thrown
               ELSE Failed("Error extracting filter.xml")
       ELSE /\ scratch' \in {NoFile, <<>>}
            /\ pc' = "crashed"
            /\ UNCHANGED outputs
  /\ UNCHANGED <<inputVars, returned, zipFile, srcManifest, srcTree, workAt, workManifest,
                 workTree, tempDirs, convertedZip, extractedPaths, classified, seenManifest,
                 steps>>

\* The manifest is read and parsed: from the scratch file, which is then
\* unlinked (finally), or directly from META-INF/vault/filter.xml.
ReadManifest ==
  /\ pc = "read"
  /\ variant # "xwalk"
  /\ IF HasZip
     THEN /\ extractedPaths' = (IF variant = "detector"
                                THEN getFilterPathsDetector(scratch)
                                ELSE getFilterPaths(scratch))
          /\ scratch' = NoFile
     ELSE /\ extractedPaths' = getFilterPaths(srcManifest)
          /\ UNCHANGED scratch
  /\ pc' = "classify"
  /\ UNCHANGED <<inputVars, returned, zipFile, srcManifest, srcTree, workAt, workManifest, workTree,
                 tempDirs, convertedZip, classified, seenManifest, steps, outputs>>

\* doExtractContentPaths reads and parses the manifest, sets page_paths
\* (setOutput writes an array as its JSON text) and returns: the paths when the
\* manifest was read from the directory; nothing when it was read from the
\* archive, where the paths only resolve the promise that is awaited.
ReadManifestXwalk ==
  /\ pc = "read"
  /\ variant = "xwalk"
  /\ \E paths \in {getFilterPathsXwalk(IF HasZip THEN scratch ELSE srcManifest)} :
       /\ extractedPaths' = paths
       /\ outputs' = [outputs EXCEPT !["page_paths"] = JsonStringify(paths)]
       /\ returned' = (IF HasZip THEN Undefined ELSE paths)
  /\ scratch' = NoFile
  /\ pc' = "done"
  /\ UNCHANGED <<inputVars, zipFile, srcManifest, srcTree, workAt, workManifest, workTree,
                 tempDirs, convertedZip, classified, seenManifest, steps>>

\* isBoilerplatePackage of the running script.
Classifier(paths) ==
  CASE variant = "detector" -> isBoilerplatePackageDetector(paths)
    [] variant = "converter" -> isBoilerplatePackageConverter(paths)
    [] variant = "combined" -> isBoilerplatePackage(paths)

\* Fault model: the output is set to 'true' whatever the classifier returned.
AlwaysTrueText(b) == <<"true">>

\* isBoilerplate.toString()
BoolText(b) == IF b THEN <<"true">> ELSE <<"false">>

\* isBoilerplatePackage(paths), the detection outputs, and the branch on the
\* result.
Classify ==
  /\ pc = "classify"
  /\ LET isBoilerplate == Classifier(extractedPaths)
         detected ==
           IF variant = "converter"
           THEN [outputs EXCEPT !["is_boilerplate"] = BoolText(isBoilerplate)]
           ELSE [outputs EXCEPT !["is_boilerplate"] = BoolText(isBoilerplate),
                                !["content_package_path"] = zipFile.name,
                                !["page_paths"] = JoinComma(extractedPaths)]
     IN /\ classified' = (IF isBoilerplate THEN "true" ELSE "false")
        /\ IF variant = "detector" \/ ~isBoilerplate
           THEN pc' = "done" /\ outputs' = detected
           ELSE IF variant = "converter" \/ (convertMode /\ inRepo # <<>>)
                THEN pc' = "convert" /\ outputs' = detected
                ELSE IF convertMode
                     THEN /\ pc' = "failed"
                          /\ outputs' = [detected EXCEPT !["error_message"] =
                                           <<"Repository name is required for conversion">>]
                     ELSE pc' = "done" /\ outputs' = detected
  /\ seenManifest' = PackageManifest
  /\ steps' = Append(steps, "classify")
  /\ UNCHANGED <<inputVars, returned, fileVars, extractedPaths>>

\* modifyExtractedContentPackage, up to the directory the conversion works in:
\* the source directory itself, or a directory the archive is extracted to.
BeginConversion ==
  /\ pc = "convert"
  /\ IF ~HasZip /\ srcKind = "dir"
     THEN /\ workAt' = "source"
          /\ pc' = "rewrite"
          /\ UNCHANGED <<workManifest, workTree, tempDirs, outputs>>
     ELSE IF ~HasZip
          THEN /\ Failed("No content package found and no extracted content")
               /\ UNCHANGED <<workAt, workManifest, workTree, tempDirs>>
          ELSE /\ workAt' = "extracted"
               /\ tempDirs' = tempDirs \cup
                    {IF variant = "converter" THEN "temp-package" ELSE "extracted_package"}
               /\ workManifest' = zipFile.manifest
               /\ workTree' = zipFile.tree
               /\ pc' = "rewrite"
               /\ UNCHANGED outputs
  /\ UNCHANGED <<inputVars, returned, zipFile, srcManifest, srcTree, convertedZip, scratch,
                 extractedPaths, classified, seenManifest, steps>>

\* extractContentPackage fails.  An error of the extractor rejects the
\* promise (.on('error', reject)): the converter removes temp-package-*
\* (finally), the combined script leaves extracted_package.  An error of the
\* read stream finds no listener and ends the process, the directory left.
ExtractPackageFails ==
  /\ pc = "convert"
  /\ HasZip
  /\ \E cause \in {"reader", "extractor"} :
       IF cause = "extractor"
       THEN /\ tempDirs' = (IF variant = "converter" THEN tempDirs
                            ELSE tempDirs \cup {"extracted_package"})
            /\ Failed("Error extracting content package")
       ELSE /\ tempDirs' = tempDirs \cup
                  {IF variant = "converter" THEN "temp-package" ELSE "extracted_package"}
            /\ pc' = "crashed"
            /\ UNCHANGED outputs
  /\ UNCHANGED <<inputVars, returned, zipFile, srcManifest, srcTree, workAt, workManifest,
                 workTree, convertedZip, scratch, extractedPaths, classified, seenManifest,
                 steps>>

\* convertBoilerplatePaths of the running script.
Rewrite(text) ==
  IF variant = "converter" THEN convertBoilerplatePathsConverter(text, inRepo)
  ELSE convertBoilerplatePaths(text, inRepo)

\* filter.xml is read, converted and written back (fs.writeFileSync) where the
\* conversion works.
RewriteManifest ==
  /\ pc = "rewrite"
  /\ IF workAt = "extracted" /\ workManifest = NoFile
     THEN \* 'filter.xml not found': the converter removes temp-package-* (finally)
          /\ Failed("filter.xml not found")
          /\ tempDirs' = (IF variant = "converter" THEN tempDirs \ {"temp-package"}
                          ELSE tempDirs)
          /\ UNCHANGED <<srcManifest, workManifest, steps>>
     ELSE /\ IF workAt = "source"
             THEN srcManifest' = Rewrite(srcManifest) /\ UNCHANGED workManifest
             ELSE workManifest' = Rewrite(workManifest) /\ UNCHANGED srcManifest
          /\ steps' = Append(steps, "rewrite")
          /\ pc' = "rename"
          /\ UNCHANGED <<tempDirs, outputs>>
  /\ UNCHANGED <<inputVars, returned, zipFile, srcTree, workAt, workTree, convertedZip,
                 scratch, extractedPaths, classified, seenManifest>>

\* renameFoldersInJcrRoot of the running script.
Rename(tree) ==
  IF variant = "converter" THEN renameFoldersInJcrRootConverter(tree, inRepo)
  ELSE renameFoldersInJcrRoot(tree, inRepo)

\* renameFoldersInJcrRoot(jcrRootPath, repoName) where the conversion works.
RenameFolders ==
  /\ pc = "rename"
  /\ IF workAt = "source"
     THEN srcTree' = Rename(srcTree) /\ UNCHANGED workTree
     ELSE workTree' = Rename(workTree) /\ UNCHANGED srcTree
  /\ steps' = Append(steps, "rename")
  /\ pc' = "repackage"
  /\ UNCHANGED <<inputVars, returned, zipFile, srcManifest, workAt, workManifest, tempDirs,
                 convertedZip, scratch, extractedPaths, classified, seenManifest, outputs>>

\* The path of the archive the conversion writes.
ConvertedName ==
  IF variant = "converter" /\ workAt = "extracted"
  THEN <<"converted-">> \o zipFile.name
  ELSE (IF workAt = "extracted" THEN <<"extracted_package", SLASH>> ELSE <<>>)
       \o <<"converted-boilerplate-">> \o inRepo \o <<".zip">>

\* The temporary directory of the repackaging step is made, filled with
\* jcr_root and META-INF, zipped and removed; for an archive the converter
\* zips its extraction directory as it is, and removes it (finally).
Repackage ==
  /\ pc = "repackage"
  /\ convertedZip' =
       [name |-> ConvertedName,
        manifest |-> (IF workAt = "source" THEN srcManifest ELSE workManifest),
        tree |-> (IF workAt = "source" THEN srcTree ELSE workTree),
        others |-> (IF variant = "converter" /\ workAt = "extracted" THEN zipFile.others
                    ELSE {})]
  /\ tempDirs' = IF variant = "converter" THEN tempDirs \ {"temp-package"} ELSE tempDirs
  /\ steps' = Append(steps, "repackage")
  /\ pc' = "finish"
  /\ UNCHANGED <<inputVars, returned, zipFile, srcManifest, srcTree, workAt, workManifest, workTree,
                 scratch, extractedPaths, classified, seenManifest, outputs>>

\* createZipFromDirectory fails; the output file has been created empty.  An
\* error of the archiver rejects the promise (archive.on('error', reject)):
\* the converter removes its temporary directories (finally), the combined
\* script leaves temp_package behind.  An error of the output file stream
\* (the archive cannot be written) finds no listener and ends the process,
\* the temporary directories left.
RepackageFails ==
  /\ pc = "repackage"
  /\ convertedZip' = [name |-> ConvertedName, manifest |-> NoFile, tree |-> {},
                       others |-> {}]
  /\ steps' = Append(steps, "repackage")
  /\ \E cause \in {"archiver", "output"} :
       IF cause = "archiver"
       THEN /\ tempDirs' = (IF variant = "converter" THEN tempDirs \ {"temp-package"}
                            ELSE tempDirs \cup {"temp_package"})
            /\ Failed("archive error")
       ELSE /\ tempDirs' = tempDirs \cup
                  {IF variant = "combined" THEN "temp_package"
                   ELSE IF workAt = "source" THEN "temp-converted" ELSE "temp-package"}
            /\ pc' = "crashed"
            /\ UNCHANGED outputs
  /\ UNCHANGED <<inputVars, returned, zipFile, srcManifest, srcTree, workAt, workManifest, workTree,
                 scratch, extractedPaths, classified, seenManifest>>

\* The conversion outputs are set and run returns.
Finish ==
  /\ pc = "finish"
  /\ outputs' = [outputs EXCEPT
                   !["converted_package_path"] = convertedZip.name,
                   !["converted_page_paths"] =
                     JsonStringify(ConvertPagePaths(extractedPaths, inRepo))]
  /\ pc' = "done"
  /\ UNCHANGED <<inputVars, returned, fileVars, extractedPaths, classified, seenManifest, steps>>

\* What the run selects as the package: the archive getContentPackagePath
\* returns, else the extracted package of the directory.
SelectedSource ==
  IF HasZip THEN zipFile.name
  ELSE IF srcManifest # NoFile THEN <<"META-INF">> ELSE <<>>

\* The archive the conversion wrote lies in zip_contents_path itself: not so
\* for an archive source in the combined script, which writes it into
\* extracted_package.
TopLevelConverted ==
  convertedZip # NoArchive /\ ~(variant = "combined" /\ workAt = "extracted")

\* The .zip files of zip_contents_path.
TopLevelZips ==
  ({zipFile} \ {NoArchive}) \cup (IF TopLevelConverted THEN {convertedZip} ELSE {})

\* The script is invoked once more, with the same inputs, on the directory as
\* the first invocation left it.  getContentPackagePath returns the first
\* name ending in .zip that readdirSync lists; the order of the listing is
\* the file system's.
Reinvoke ==
  /\ invocation = 1
  /\ pc \in {"done", "failed"}
  /\ invocation' = 2
  /\ firstRun' = [pc |-> pc, source |-> SelectedSource,
                  is_boilerplate |-> outputs["is_boilerplate"],
                  page_paths |-> outputs["page_paths"]]
  /\ zipFile' \in (IF TopLevelZips = {} THEN {NoArchive} ELSE TopLevelZips)
  /\ workAt' = "none"
  /\ workManifest' = NoFile
  /\ workTree' = {}
  /\ pc' = (IF variant = "xwalk" THEN "locate" ELSE "start")
  /\ extractedPaths' = <<>>
  /\ classified' = "none"
  /\ seenManifest' = NoFile
  /\ steps' = <<>>
  /\ outputs' = [n \in OutputNames |-> Unset]
  /\ returned' = NotReturned
  /\ UNCHANGED <<inputVars, srcManifest, srcTree, tempDirs, convertedZip, scratch>>

(***************************************************************************)
(* Two detections at once.  An invocation goes through the steps its       *)
(* callbacks order: the pipe into fs.createWriteStream('filter.xml') up to *)
(* 'finish', fs.readFile('filter.xml') in the 'finish' handler, and the    *)
(* unlink of the finally block, after which the script classifies and      *)
(* reports.  The two processes share nothing but the working directory,    *)
(* and their steps interleave in every order.                              *)
(***************************************************************************)
Procs == {1, 2}

\* getFilterPaths of the script the invocations run.
ScratchExtractor(text) ==
  CASE detScript = "detector" -> getFilterPathsDetector(text)
    [] detScript = "combined" -> getFilterPaths(text)
    [] detScript = "xwalk" -> getFilterPathsXwalk(text)

\* isBoilerplatePackage(extractedPaths) as the script reports it; the xwalk
\* operation reports page_paths only.
ScratchClassifier(paths) ==
  CASE detScript = "detector" -> BoolText(isBoilerplatePackageDetector(paths))
    [] detScript = "combined" -> BoolText(isBoilerplatePackage(paths))
    [] detScript = "xwalk" -> Unset

ScratchIdle ==
  /\ detScript = "none"
  /\ detPackage = [p \in Procs |-> <<>>]
  /\ detPc = [p \in Procs |-> "idle"]
  /\ detError = [p \in Procs |-> Unset]
  /\ detPaths = [p \in Procs |-> Unset]
  /\ detVerdict = [p \in Procs |-> Unset]
  /\ cwdFilterXml = NoFile

\* Two invocations of one script on two different packages, about to extract.
ScratchInit ==
  /\ detScript \in {"detector", "combined", "xwalk"}
  /\ \E sy \in Syntaxes, first \in RunRootLists, second \in RunRootLists :
       /\ first # second
       /\ detPackage = [p \in Procs |->
                          IF p = 1
                          THEN [i \in 1..Len(first) |-> [syntax |-> sy, root |-> first[i]]]
                          ELSE [i \in 1..Len(second) |-> [syntax |-> sy, root |-> second[i]]]]
  /\ detPc = [p \in Procs |-> "write"]
  /\ detError = [p \in Procs |-> Unset]
  /\ detPaths = [p \in Procs |-> Unset]
  /\ detVerdict = [p \in Procs |-> Unset]
  /\ cwdFilterXml = NoFile

\* createReadStream(zip).pipe(ParseOne('META-INF/vault/filter.xml'))
\*   .pipe(createWriteStream('filter.xml')), up to 'finish': the file of that
\* name in the working directory is created or truncated and holds the
\* manifest of the process's archive.
ScratchWrite(p) ==
  /\ detPc[p] = "write"
  /\ cwdFilterXml' = RenderManifest(detPackage[p])
  /\ detPc' = [detPc EXCEPT ![p] = "read"]
  /\ UNCHANGED <<detScript, detPackage, detError, detPaths, detVerdict>>

\* The 'finish' handler: fs.readFile('filter.xml') reads whatever file has
\* that name now; without one it calls back with an error, which rejects the
\* promise; otherwise the paths are extracted from what was read.
ScratchRead(p) ==
  /\ detPc[p] = "read"
  /\ IF cwdFilterXml = NoFile
     THEN /\ detError' = [detError EXCEPT ![p] = <<"Error reading extracted file">>]
          /\ UNCHANGED detPaths
     ELSE /\ detPaths' = [detPaths EXCEPT ![p] = ScratchExtractor(cwdFilterXml)]
          /\ UNCHANGED detError
  /\ detPc' = [detPc EXCEPT ![p] = "delete"]
  /\ UNCHANGED <<detScript, detPackage, detVerdict, cwdFilterXml>>

\* The finally block, if (fs.existsSync('filter.xml')) fs.unlinkSync(...),
\* and what follows it: a rejected promise is rethrown, to the catch block of
\* run or, in the xwalk operation, to the caller; otherwise the script
\* classifies the paths it extracted and reports.
ScratchDelete(p) ==
  /\ detPc[p] = "delete"
  /\ cwdFilterXml' = NoFile
  /\ IF detError[p] # Unset
     THEN /\ detPc' = [detPc EXCEPT ![p] = IF detScript = "xwalk" THEN "thrown"
                                           ELSE "failed"]
          /\ UNCHANGED detVerdict
     ELSE /\ detPc' = [detPc EXCEPT ![p] = "done"]
          /\ detVerdict' = [detVerdict EXCEPT ![p] = ScratchClassifier(detPaths[p])]
  /\ UNCHANGED <<detScript, detPackage, detError, detPaths>>

(***************************************************************************)
(* Specifications                                                          *)
(***************************************************************************)
AgainIdle ==
  /\ invocation = 1
  /\ firstRun = NoRun

Init == RunInit /\ ClassifyIdle /\ ManifestIdle /\ AgainIdle /\ ScratchIdle

Next ==
  \/ Validate /\ UNCHANGED <<classifyVars, manifestVars, againVars, scratchVars>>
  \/ Locate /\ UNCHANGED <<classifyVars, manifestVars, againVars, scratchVars>>
  \/ LocateXwalk /\ UNCHANGED <<classifyVars, manifestVars, againVars, scratchVars>>
  \/ ExtractManifest /\ UNCHANGED <<classifyVars, manifestVars, againVars, scratchVars>>
  \/ ExtractManifestFails /\ UNCHANGED <<classifyVars, manifestVars, againVars, scratchVars>>
  \/ ReadManifest /\ UNCHANGED <<classifyVars, manifestVars, againVars, scratchVars>>
  \/ ReadManifestXwalk /\ UNCHANGED <<classifyVars, manifestVars, againVars, scratchVars>>
  \/ Classify /\ UNCHANGED <<classifyVars, manifestVars, againVars, scratchVars>>
  \/ BeginConversion /\ UNCHANGED <<classifyVars, manifestVars, againVars, scratchVars>>
  \/ ExtractPackageFails /\ UNCHANGED <<classifyVars, manifestVars, againVars, scratchVars>>
  \/ RewriteManifest /\ UNCHANGED <<classifyVars, manifestVars, againVars, scratchVars>>
  \/ RenameFolders /\ UNCHANGED <<classifyVars, manifestVars, againVars, scratchVars>>
  \/ Repackage /\ UNCHANGED <<classifyVars, manifestVars, againVars, scratchVars>>
  \/ RepackageFails /\ UNCHANGED <<classifyVars, manifestVars, againVars, scratchVars>>
  \/ Finish /\ UNCHANGED <<classifyVars, manifestVars, againVars, scratchVars>>

\* Runs of the scripts.
Spec == Init /\ [][Next]_vars

NextAgain ==
  \/ Next
  \/ Reinvoke /\ UNCHANGED <<classifyVars, manifestVars, scratchVars>>

\* Runs of the scripts, each followed by a second invocation.
SpecAgain == Init /\ [][NextAgain]_vars

ClassifyNext ==
  \/ AddPath /\ UNCHANGED <<manifestVars, runVars, againVars, scratchVars>>
  \/ ClassifyList /\ UNCHANGED <<manifestVars, runVars, againVars, scratchVars>>
  \/ Reorder /\ UNCHANGED <<manifestVars, runVars, againVars, scratchVars>>

InitClassify == ClassifyInit /\ ManifestIdle /\ RunIdle /\ AgainIdle /\ ScratchIdle

\* The classifiers applied to every path list of the bounds.
SpecClassify == InitClassify /\ [][ClassifyNext]_vars

ManifestNext ==
  \/ Extract /\ UNCHANGED <<classifyVars, runVars, againVars, scratchVars>>
  \/ Convert /\ UNCHANGED <<classifyVars, runVars, againVars, scratchVars>>
  \/ ConvertAgain /\ UNCHANGED <<classifyVars, runVars, againVars, scratchVars>>

InitManifest == ManifestInit /\ ClassifyIdle /\ RunIdle /\ AgainIdle /\ ScratchIdle

\* The extractors and the rewrites applied to every manifest of the bounds.
SpecManifest == InitManifest /\ [][ManifestNext]_vars

ScratchNext ==
  \/ (\E p \in Procs : ScratchWrite(p))
       /\ UNCHANGED <<classifyVars, manifestVars, runVars, againVars>>
  \/ (\E p \in Procs : ScratchRead(p))
       /\ UNCHANGED <<classifyVars, manifestVars, runVars, againVars>>
  \/ (\E p \in Procs : ScratchDelete(p))
       /\ UNCHANGED <<classifyVars, manifestVars, runVars, againVars>>

InitScratch == ScratchInit /\ ClassifyIdle /\ ManifestIdle /\ RunIdle /\ AgainIdle

\* Two archive detections running at once in one working directory.
SpecScratch == InitScratch /\ [][ScratchNext]_vars

(***************************************************************************)
(* Properties                                                              *)
(***************************************************************************)
\* The manifest of the package as it was delivered to the run.
OriginalManifest == RenderManifest(inElems)

\* The package source as it was delivered: archive, manifest file and folders.
SourceAsDelivered ==
  /\ zipFile = DeliveredArchive
  /\ srcManifest = (IF srcKind = "dir" THEN OriginalManifest ELSE NoFile)
  /\ srcTree = (IF srcKind = "dir" THEN inTree ELSE {})

ConversionSteps == {"rewrite", "rename", "repackage"}

\* Every conversion step performed so far came after a classification, and
\* the classification returned true.
ConversionFollowsClassification ==
  \A i \in 1..Len(steps) :
    steps[i] \in ConversionSteps =>
      classified = "true" /\ \E j \in 1..(i - 1) : steps[j] = "classify"

\* The entries of a path list, and those of them that bear the placeholder.
Entries(paths) == {paths[i] : i \in 1..Len(paths)}
TaggedEntries(paths) == {i \in 1..Len(paths) : PH \in Entries(paths[i])}
ReferencePaths == {PathTools, PathBlocks, PathDamBlocks}

\* The permissive rule as the specification words it.
PermissiveRule(paths) ==
  \/ ReferencePaths \subseteq Entries(paths)
  \/ /\ Cardinality(TaggedEntries(paths)) >= 2
     /\ 5 * Cardinality(TaggedEntries(paths)) >= 3 * Len(paths)

\* The strict rule as the specification words it.
StrictRule(paths) == Len(paths) = 3 /\ Entries(paths) = ReferencePaths

VerdictText(b) == IF b THEN "true" ELSE "false"

\* A path with every placeholder lexeme replaced by the repository name.
Substituted(path, repoName) ==
  Flatten([i \in 1..Len(path) |-> IF path[i] = PH THEN repoName ELSE <<path[i]>>])

\* The values of the root attributes of a text from pos on, in text order.
RECURSIVE RootValuesFrom(_, _)
RootValuesFrom(s, pos) ==
  TheOne({IF j = 0 THEN <<>>
          ELSE TheOne({<<SubSeq(s, j + 2, q - 1)>> \o RootValuesFrom(s, q + 1) :
                       q \in {Least({k \in (j + 2)..Len(s) : s[k] = Q})}}) :
          j \in {LeastOrZero({k \in pos..(Len(s) - 2) : s[k] = ROOT_EQ /\ s[k + 1] = Q})}})

RootValues(s) == RootValuesFrom(s, 1)

\* The same root values written in one tag syntax.
InSyntax(elems, syntax) ==
  [i \in 1..Len(elems) |-> [syntax |-> syntax, root |-> elems[i].root]]

OneSyntax(elems) == \A i, j \in 1..Len(elems) : elems[i].syntax = elems[j].syntax

\* C1 as stated: in every run of the converter script and of the combined
\* script on a package, the verdict is the one of the package's original,
\* unmodified filter manifest, and no rewrite, folder rename or repackaging
\* step is performed before classification has returned true.
C1_ClassifiedFromManifest ==
  (variant \in {"converter", "combined"} /\ srcKind \in {"zip", "dir"}) =>
    /\ ConversionFollowsClassification
    /\ classified # "none" =>
         /\ seenManifest = OriginalManifest
         /\ classified = VerdictText(PermissiveRule(Roots(inElems)))

\* C1 as amended: the combined script classifies the paths of the original,
\* unmodified filter manifest; the converter script classifies the page_paths
\* input while the manifest is still unmodified; in both, no rewrite, folder
\* rename or repackaging step is performed before classification has returned
\* true.
C1_ClassifiedBeforeConversion ==
  variant \in {"converter", "combined"} =>
    /\ ConversionFollowsClassification
    /\ classified # "none" =>
         /\ seenManifest = (IF srcKind \in {"zip", "dir"} THEN OriginalManifest ELSE NoFile)
         /\ SourceAsDelivered
              \/ \E i \in 1..Len(steps) : steps[i] \in ConversionSteps
         /\ classified =
              VerdictText(PermissiveRule(IF variant = "combined" THEN Roots(inElems)
                                         ELSE ParsePagePaths(inPagePaths)))

\* A converter run that converted a package whose manifest holds only
\* /content/acme/foo, because page_paths named the three reference paths.
C1_ConverterTrustsPagePaths ==
  /\ variant = "converter"
  /\ pc = "done"
  /\ steps = <<"classify", "rewrite", "rename", "repackage">>
  /\ Roots(inElems) = <<PathUnrelated>>

\* C2 as stated: a run of the converter or of the combined script never
\* changes the package source: the archive, the original
\* META-INF/vault/filter.xml and the folders under jcr_root stay as delivered.
C2_SourceNeverMutated ==
  variant \in {"converter", "combined"} => SourceAsDelivered

\* C3: whenever classification returned false, is_boilerplate is "false", no
\* rewrite, rename or repackaging has been performed, the files under
\* zip_contents_path are as delivered, and neither converted_package_path nor
\* converted_page_paths is set.
C3_NotBoilerplateNoConversion ==
  classified = "false" =>
    /\ outputs["is_boilerplate"] = <<"false">>
    /\ \A i \in 1..Len(steps) : steps[i] \notin ConversionSteps
    /\ SourceAsDelivered
    /\ workAt = "none"
    /\ tempDirs = {}
    /\ convertedZip = NoArchive
    /\ outputs["converted_package_path"] = Unset
    /\ outputs["converted_page_paths"] = Unset

\* A finished run of the combined script, conversion requested, on a manifest
\* whose only path is /content/acme/foo.
C3_UnrelatedPathFinished ==
  /\ variant = "combined"
  /\ convertMode
  /\ inRepo = <<"acme">>
  /\ Roots(inElems) = <<PathUnrelated>>
  /\ classified = "false"
  /\ pc = "done"

\* C4 as stated: convertBoilerplatePaths of the converter and of the combined
\* script returns a text whose root values are those of the input with every
\* placeholder replaced by repoName, whatever the tag syntax, and in which
\* every element whose root has no placeholder stands unchanged.
C4_RootsRewritten ==
  mStage = "converted" =>
    \A v \in {"converter", "combined"} :
      /\ RootValues(mText[v])
           = [i \in 1..Len(mElems) |-> Substituted(mElems[i].root, mRepo)]
      /\ \A i \in 1..Len(mElems) :
           ~HasPlaceholder(mElems[i].root) =>
             TextIncludes(mText[v], RenderElement(mElems[i].syntax, mElems[i].root))

\* C5 as stated: a finished detect-and-convert run on a manifest whose entries
\* are exactly the three reference paths, with repo_name 'acme', reports
\* is_boilerplate = true and the entries of the rewritten manifest are
\* /content/acme/tools, /content/acme/block-collection and
\* /content/dam/acme/block-collection, in this order.
C5_ReferencePackageConverted ==
  ( /\ variant \in {"converter", "combined"}
    /\ pc = "done"
    /\ Roots(inElems) = BOILERPLATE_PATHS
    /\ inRepo = <<"acme">>
    /\ variant = "combined" => convertMode
    /\ variant = "converter" => ParsePagePaths(inPagePaths) = BOILERPLATE_PATHS ) =>
    /\ outputs["is_boilerplate"] = <<"true">>
    /\ RootValues(convertedZip.manifest)
         = [i \in 1..3 |-> Substituted(BOILERPLATE_PATHS[i], inRepo)]

\* C6: the permissive isBoilerplatePackage (converter and combined script)
\* returns true if and only if all three reference paths occur in the list,
\* or at least 2 entries bear the placeholder and they are at least 60% of
\* the list; so it returns false for the empty list and for a list that lacks
\* a reference path and has fewer than 2 placeholder-bearing entries.
C6_PermissiveRule ==
  cStage = "classified" =>
    /\ cFirst.combined = PermissiveRule(cPaths)
    /\ cFirst.converter = PermissiveRule(cPaths)
    /\ cPaths = <<>> => ~cFirst.combined /\ ~cFirst.converter
    /\ (~(ReferencePaths \subseteq Entries(cPaths)) /\ Cardinality(TaggedEntries(cPaths)) < 2)
         => ~cFirst.combined /\ ~cFirst.converter

\* A list of six entries classified true only because the three reference
\* paths occur in it: its placeholder-bearing entries are half of the list.
C6_ReferencePathsAmongOthers ==
  /\ cStage = "classified"
  /\ ~cReordered
  /\ Len(cPaths) = 6
  /\ Cardinality(TaggedEntries(cPaths)) = 3
  /\ cFirst.combined
  /\ cFirst.converter

\* C7: the strict isBoilerplatePackage of the detector script returns true if
\* and only if the list has exactly 3 entries and, as a set, equals the three
\* reference paths; it returns false for the empty list and for a 3-entry list
\* with a duplicate.
C7_StrictRule ==
  cStage = "classified" =>
    /\ cFirst.detector = StrictRule(cPaths)
    /\ cPaths = <<>> => ~cFirst.detector
    /\ (Len(cPaths) = 3 /\ Cardinality(Entries(cPaths)) < 3) => ~cFirst.detector

\* The three reference paths, in another order than the script lists them,
\* classified true by the detector.
C7_ReferencePathsInAnotherOrder ==
  /\ cStage = "classified"
  /\ ~cReordered
  /\ cFirst.detector
  /\ cPaths # BOILERPLATE_PATHS

\* C8: every reordering of a path list gets the verdict of the list, from the
\* strict classifier and from the permissive ones.
C8_OrderInvariant ==
  cStage = "classified" => cNow = cFirst

\* A reordered list that the strict and the permissive classifiers classify
\* true, and that is not in sorted order.
C8_ReorderedAndTrue ==
  /\ cStage = "classified"
  /\ cReordered
  /\ cNow.detector
  /\ cNow.combined
  /\ cPaths # Sort(cPaths)

\* C9 as stated: for a list of root values, each getFilterPaths (detector,
\* combined, xwalk-content) returns the same list whichever tag syntax the
\* manifest writes its filter elements in.
C9_SyntaxIndependent ==
  (mStage = "extracted" /\ OneSyntax(mElems)) =>
    \A syntax \in Syntaxes :
      /\ mPaths.detector = getFilterPathsDetector(RenderManifest(InSyntax(mElems, syntax)))
      /\ mPaths.combined = getFilterPaths(RenderManifest(InSyntax(mElems, syntax)))
      /\ mPaths.xwalk = getFilterPathsXwalk(RenderManifest(InSyntax(mElems, syntax)))

\* C10 as stated: getFilterPaths of the combined script and of xwalk-content
\* returns the distinct root values of the manifest's filter elements, each
\* once, in the order of their first appearance in the text, also when the
\* manifest mixes tag syntaxes.
C10_TextOrder ==
  mStage = "extracted" =>
    /\ mPaths.combined = Distinct(Roots(mElems), <<>>)
    /\ mPaths.xwalk = Distinct(Roots(mElems), <<>>)

\* The folders under jcr_root where the conversion works.
WorkedTree == IF workAt = "source" THEN srcTree ELSE workTree

\* No conversion has left a trace: no step, no file, no output.
NothingConverted ==
  /\ \A i \in 1..Len(steps) : steps[i] \notin ConversionSteps
  /\ SourceAsDelivered
  /\ workAt = "none"
  /\ tempDirs = {}
  /\ convertedZip = NoArchive
  /\ outputs["converted_package_path"] = Unset
  /\ outputs["converted_page_paths"] = Unset

\* C11 as stated: doExtractContentPaths returns the paths parsed from
\* META-INF/vault/filter.xml, the same list for the same manifest text,
\* whether the manifest is read from an extracted directory or from inside a
\* zip archive.
C11_SamePathsEitherSource ==
  (variant = "xwalk" /\ pc = "done") => returned = getFilterPathsXwalk(OriginalManifest)

\* C12 as stated: when the archive holds no META-INF/vault/filter.xml entry,
\* or the read stream or the entry parser emits an error, the detection step
\* fails with an error that reaches the caller: the process does not end on
\* an unhandled stream error, and the run ends with error_message set
\* (doExtractContentPaths: with the error thrown to its caller).
C12_ExtractionErrorReachesCaller ==
  variant \in {"detector", "combined", "xwalk"} =>
    /\ pc # "crashed"
    /\ (srcKind = "zipNoManifest" /\ pc \in Terminal) =>
         IF variant = "xwalk" THEN pc = "thrown"
         ELSE pc = "failed" /\ outputs["error_message"] # Unset

\* C13 as stated: a run of the detector, the converter or the combined script
\* on an existing directory with no .zip file and no META-INF directory ends
\* failed, with error_message set, whatever the other inputs.
C13_NoPackageFails ==
  (variant \in {"detector", "converter", "combined"} /\ srcKind = "none" /\ pc \in Terminal) =>
    pc = "failed" /\ outputs["error_message"] # Unset

\* C13 as amended: such a run of the detector or of the combined script ends
\* failed with error_message set, and so does a run of the converter whose
\* repo_name is empty or whose page_paths is classified as boilerplate; a run
\* of the converter with a repo_name whose page_paths is not classified as
\* boilerplate never looks for the package: it ends normally with
\* is_boilerplate 'false' and no error_message.  No run ends on an uncaught
\* exception.
C13_NoPackageFailsWhenLookedFor ==
  (variant \in {"detector", "converter", "combined"} /\ srcKind = "none" /\ pc \in Terminal) =>
    IF variant = "converter" /\ inRepo # <<>>
         /\ ~isBoilerplatePackageConverter(ParsePagePaths(inPagePaths))
    THEN /\ pc = "done"
         /\ outputs["is_boilerplate"] = <<"false">>
         /\ outputs["error_message"] = Unset
         /\ NothingConverted
    ELSE /\ pc = "failed"
         /\ outputs["error_message"] # Unset

\* A converter run, page_paths the three reference paths, that found neither
\* an archive nor an extracted package to convert.
C13_ConverterFindsNoPackage ==
  /\ variant = "converter"
  /\ srcKind = "none"
  /\ classified = "true"
  /\ pc = "failed"

\* C14 as stated: every error of a run is caught by the entry point, which
\* sets error_message and returns: no run ends with the error thrown to the
\* caller or with the process ended by an unhandled error, in any script,
\* doExtractContentPaths included.
C14_ErrorsCaughtAtEntryPoint ==
  /\ pc \notin {"thrown", "crashed"}
  /\ pc = "failed" => outputs["error_message"] # Unset

\* C15 as stated: when a run of the converter or of the combined script has
\* ended, converted or failed, none of the temporary working directories it
\* made is left under zip_contents_path.
C15_TempDirsRemoved ==
  (variant \in {"converter", "combined"} /\ pc \in {"done", "failed"}) => tempDirs = {}

\* C16 as stated: the archive a conversion wrote holds the rewritten manifest
\* under META-INF, the renamed folders under jcr_root, and no other top-level
\* entry of the source, for an archive source and for a directory source, in
\* the converter and in the combined script.
C16_ArchiveHoldsRewrittenPackage ==
  (variant \in {"converter", "combined"} /\ pc = "done" /\ convertedZip # NoArchive) =>
    /\ convertedZip.manifest = Rewrite(OriginalManifest)
    /\ convertedZip.tree = Rename(inTree)
    /\ convertedZip.others = {}

\* C17: with an empty repo_name no rewrite, folder rename or repackaging is
\* performed, no file is modified and no converted_* output is set; and the
\* run of the converter, and the run of the combined script that was asked to
\* convert a package classified as boilerplate, ends failed with
\* error_message set.
C17_NoConversionWithoutRepoName ==
  (variant \in {"converter", "combined"} /\ inRepo = <<>>) =>
    /\ NothingConverted
    /\ (pc \in Terminal
          /\ (variant = "converter" \/ (inConvert = <<"true">> /\ classified = "true"))) =>
         pc = "failed" /\ outputs["error_message"] # Unset

\* A run of the combined script, convert 'true', no repo_name, on a package
\* classified as boilerplate.
C17_BoilerplateWithoutRepoName ==
  /\ variant = "combined"
  /\ convertMode
  /\ inRepo = <<>>
  /\ classified = "true"
  /\ pc = "failed"

\* C18: a run of the combined script whose convert input is not 'true' is
\* detection-only: no rewrite, rename or repackaging, zip_contents_path as
\* delivered, no converted_* output; once the package is classified the run
\* has returned with is_boilerplate, content_package_path and page_paths set,
\* whatever the classification and repo_name.
C18_DetectionOnly ==
  (variant = "combined" /\ inConvert # <<"true">>) =>
    /\ NothingConverted
    /\ classified # "none" =>
         /\ pc = "done"
         /\ outputs["is_boilerplate"] = <<classified>>
         /\ outputs["content_package_path"] = zipFile.name
         /\ outputs["page_paths"] = JoinComma(extractedPaths)
         /\ outputs["error_message"] = Unset

\* A run of the combined script with convert 'TRUE' and repo_name 'acme' on a
\* package classified as boilerplate.
C18_BoilerplateNotConverted ==
  /\ variant = "combined"
  /\ inConvert = <<"TRUE">>
  /\ inRepo = <<"acme">>
  /\ classified = "true"
  /\ pc = "done"

\* C19 as stated: renameFoldersInJcrRoot on a tree without
\* content/sta-xwalk-boilerplate leaves the folders as they were, also when
\* the tree has content/dam/sta-xwalk-boilerplate, for every repoName.
C19_RenameWithoutContentFolder ==
  ( /\ variant \in {"converter", "combined"}
    /\ \E i \in 1..Len(steps) : steps[i] = "rename"
    /\ <<DirContent, DirPlaceholder>> \notin inTree ) =>
    WorkedTree = inTree

\* C19 as amended: renameFoldersInJcrRoot on a tree that has neither
\* content/sta-xwalk-boilerplate nor content/dam/sta-xwalk-boilerplate leaves
\* the folders as they were, for every repoName.
C19_RenameWithoutBoilerplateFolders ==
  ( /\ variant \in {"converter", "combined"}
    /\ \E i \in 1..Len(steps) : steps[i] = "rename"
    /\ <<DirContent, DirPlaceholder>> \notin inTree
    /\ <<DirContent, DirDam, DirPlaceholder>> \notin inTree ) =>
    WorkedTree = inTree

\* A finished conversion by the combined script of a package whose jcr_root
\* has no boilerplate folder.
C19_PlainTreeConverted ==
  /\ variant = "combined"
  /\ inTree = TreePlain
  /\ steps = <<"classify", "rewrite", "rename", "repackage">>
  /\ pc = "done"

\* C20: convertBoilerplatePaths, of the converter and of the combined script,
\* returns a text without the placeholder unchanged; so whenever its result
\* holds no placeholder, applying it to the result returns the result.
C20_IdempotentOnceFree ==
  /\ mStage = "converted" =>
       \A v \in {"converter", "combined"} :
         ~HasPlaceholder(RenderManifest(mElems)) => mText[v] = RenderManifest(mElems)
  /\ mStage = "convertedTwice" =>
       \A v \in {"converter", "combined"} :
         ~HasPlaceholder(mText[v]) => mTwice[v] = mText[v]

\* A manifest with a placeholder that both scripts rewrote to a text without
\* one, and the rewrite applied again to that text.
C20_RewrittenThenAgain ==
  /\ mStage = "convertedTwice"
  /\ HasPlaceholder(RenderManifest(mElems))
  /\ ~HasPlaceholder(mText.converter)
  /\ ~HasPlaceholder(mText.combined)

\* The folders a conversion is to leave under jcr_root: the two boilerplate
\* folders, where there, carry repo_name.
FoldersNamedAfterRepo ==
  {IF IsPrefix(<<DirContent, DirPlaceholder>>, d)
   THEN <<DirContent, inRepo>> \o SubSeq(d, 3, Len(d))
   ELSE IF IsPrefix(<<DirContent, DirDam, DirPlaceholder>>, d)
        THEN <<DirContent, DirDam, inRepo>> \o SubSeq(d, 4, Len(d))
        ELSE d : d \in inTree}

\* C21 as stated: after one complete invocation on a directory, a second
\* invocation with the same inputs on the same directory selects the same
\* package source and reports the same is_boilerplate and page_paths.
C21_SecondInvocationAgrees ==
  (invocation = 2 /\ firstRun.pc = "done" /\ pc = "done") =>
    /\ SelectedSource = firstRun.source
    /\ outputs["is_boilerplate"] = firstRun.is_boilerplate
    /\ outputs["page_paths"] = firstRun.page_paths

\* C22 as stated: after a successful conversion the three views of the
\* converted package agree, for every repo_name: the root values of the
\* rewritten filter.xml are, in order, the entries of converted_page_paths,
\* which are the original paths with every placeholder replaced once by
\* repo_name, and the renamed folders under content and content/dam carry
\* exactly repo_name.
C22_ViewsAgree ==
  (variant \in {"converter", "combined"} /\ pc = "done"
     /\ outputs["converted_package_path"] # Unset) =>
    /\ outputs["converted_page_paths"]
         = JsonStringify([i \in 1..Len(extractedPaths) |->
                            Substituted(extractedPaths[i], inRepo)])
    /\ RootValues(convertedZip.manifest)
         = [i \in 1..Len(extractedPaths) |-> Substituted(extractedPaths[i], inRepo)]
    /\ convertedZip.tree = FoldersNamedAfterRepo

\* C23 as stated: in a run of the converter or of the combined script the
\* converted_* outputs are set only after the rewrite, the rename and the
\* repackaging have all succeeded, never in a run that sets error_message;
\* and a run that ends otherwise than converted after is_boilerplate 'true'
\* was set, although conversion was asked for, ends with error_message set
\* and no converted_* output.
C23_ConvertedOutputsOnlyOnSuccess ==
  variant \in {"converter", "combined"} =>
    /\ (outputs["converted_package_path"] # Unset \/ outputs["converted_page_paths"] # Unset) =>
         /\ steps = <<"classify", "rewrite", "rename", "repackage">>
         /\ convertedZip.manifest # NoFile
         /\ outputs["error_message"] = Unset
    /\ (pc \in Terminal /\ outputs["is_boilerplate"] = <<"true">>
          /\ (variant = "converter" \/ inConvert = <<"true">>)
          /\ outputs["converted_package_path"] = Unset) =>
         /\ pc = "failed"
         /\ outputs["error_message"] # Unset
         /\ outputs["converted_page_paths"] = Unset

\* What a detection reports when it runs alone on the package of process p.
OwnPaths(p) == ScratchExtractor(RenderManifest(detPackage[p]))

\* C24 as stated: when two archive detections on different packages run at
\* once in one working directory, then under every interleaving of their
\* write, read and delete steps on filter.xml each of them ends without an
\* error and reports the page paths and the classification of its own package.
C24_ConcurrentDetectionsIsolated ==
  \A p \in Procs :
    detPc[p] \in {"done", "failed", "thrown"} =>
      /\ detPc[p] = "done"
      /\ detError[p] = Unset
      /\ detPaths[p] = OwnPaths(p)
      /\ detVerdict[p] = ScratchClassifier(OwnPaths(p))

=============================================================================
